---- MODULE Spec2Model ----
(***************************************************************************)
(* A model of main.py: the directory scan, the watchdog handler and the    *)
(* transcribe_file pipeline, with the processed-files mapping in memory    *)
(* and in processed_files.json, the transcripts and the extracted .wav     *)
(* siblings on disk, and the process being killed and started again.       *)
(***************************************************************************)
EXTENDS Integers, Sequences, FiniteSets, TLC

VARIABLES
    pc,               \* the process: "start" | "scan" | "watch" | "stopping" | "exited" | "raised" | "killed"
    err,              \* the uncaught exception that ended a thread: "none" | "load" | "extract" | "transcribe" | "interrupt"
    run,              \* number of the current run of the program (1, 2, ...)
    fs,               \* the paths that exist under WATCH_DIR (media files, .wav siblings, directories)
    todo,             \* the files os.walk listed and the scan loop has not visited yet
    observer,         \* the watchdog observer thread: "off" | "running" | "stopping" | "failed"
    events,           \* creation events queued for on_created, oldest first
    tf,               \* the transcribe_file invocation in progress and the line it is at
    processed_files,  \* the in-memory mapping, path -> transcript file name
    state_file,       \* processed_files.json on disk
    transcripts,      \* the .txt files on disk: "none" | "partial" | "full"
    calls,            \* per path, what this run has called for it so far (saturating at Cap)
    last,             \* how the latest finished transcribe_file invocation of this run ended
    completed,        \* the paths whose transcript write has returned, in any run
    saved,            \* the paths for which save_processed_files has returned, in any run
    loaded,           \* the keys processed_files.json held when this run read it
    wcall,            \* a call of wait_for_download on its own: its arguments and its result
    xcall,            \* two calls of extract_audio on their own: the path, the files, the results
    offered           \* the paths the user of this run of the model has to put under WATCH_DIR

probes == <<wcall, xcall, offered>>

vars == <<pc, err, run, fs, todo, observer, events, tf, processed_files,
          state_file, transcripts, calls, last, completed, saved, loaded, wcall, xcall,
          offered>>

(***************************************************************************)
(* Bounds of the model.                                                    *)
(***************************************************************************)
MaxFiles == 2     \* files and directories the user puts under WATCH_DIR
MaxRuns == 2      \* runs of the program
MaxQueue == 1     \* creation events the user's actions leave pending at a time
Cap == 2          \* the call counters saturate here ("two or more")

(***************************************************************************)
(* Paths.  A path is named by the string a user would read; the string     *)
(* operations of the code work on its tokens: "." and "/" are tokens, and  *)
(* so is every maximal run of other characters.                            *)
(***************************************************************************)
Paths == {"clip.mp3", "TALK.MP3", "video.mp4", "video.wav", "notes.pdf", "mp3", "sub.mp3"}

\* the directories among them
Dirs == {"sub.mp3"}

\* what the user has: media files, or files and directories with odd names
Media == {"clip.mp3", "video.mp4", "video.wav"}
OddNames == {"TALK.MP3", "notes.pdf", "mp3", "sub.mp3"}

Name(p) ==
    CASE p = "clip.mp3"  -> <<"clip", ".", "mp3">>
      [] p = "TALK.MP3"  -> <<"TALK", ".", "MP3">>
      [] p = "video.mp4" -> <<"video", ".", "mp4">>
      [] p = "video.wav" -> <<"video", ".", "wav">>
      [] p = "notes.pdf" -> <<"notes", ".", "pdf">>
      [] p = "mp3"       -> <<"mp3">>
      [] p = "sub.mp3"   -> <<"sub", ".", "mp3">>

WATCH_DIR == <<".", "/", "media">>

SUPPORTED_FORMATS == {"mp3", "wav", "mp4", "mkv", "mov", "flv", "aac", "m4a"}

\* os.path.join(root, file), and the src_path watchdog reports for the same file
join(root, file) == root \o <<"/">> \o file

\* str.lower()
LowerTok(t) ==
    CASE t = "MP3"  -> "mp3"
      [] t = "TALK" -> "talk"
      [] OTHER      -> t

lower(s) == [i \in 1..Len(s) |-> LowerTok(s[i])]

\* the position of the last "." of s, 0 when it has none: s.rfind(".")
rfind(s) ==
    LET dots == {i \in 1..Len(s) : s[i] = "."}
    IN  IF dots = {} THEN 0 ELSE CHOOSE i \in dots : \A j \in dots : j <= i

\* s.split(".")[-1]
split_last(s) == SubSeq(s, rfind(s) + 1, Len(s))

\* a string is in SUPPORTED_FORMATS when it is one token, and that token is
in_formats(s) == Len(s) = 1 /\ s[1] \in SUPPORTED_FORMATS

\* pathlib: PurePath.suffix of a file name, with its leading "."
suffix(name) ==
    LET i == rfind(name)
    IN  IF 1 < i /\ i < Len(name) THEN SubSeq(name, i, Len(name)) ELSE <<>>

\* pathlib: PurePath.with_suffix
with_suffix(name, sfx) ==
    SubSeq(name, 1, Len(name) - Len(suffix(name))) \o sfx

\* the path a file name belongs to
PathOf(name) == CHOOSE p \in Paths : Name(p) = name

\* the transcript names there can be
TxtNames == {with_suffix(Name(p), <<".", "txt">>) : p \in Paths}

(***************************************************************************)
(* wait_for_download.  size is the file's size as a function of the time   *)
(* since the call (Absent while the path does not exist); the clock moves  *)
(* only in time.sleep, by exactly check_interval.  The result is what the  *)
(* call returns (or that os.path.getsize raised) and the time it took.     *)
(***************************************************************************)
Absent == -1

\* the iterations the while loop can start: the k-th starts at time
\* k * check_interval, if time.time() - start_time < timeout holds then
Iterations(timeout, check_interval) ==
    {k \in 0..((timeout + check_interval - 1) \div check_interval) : k * check_interval < timeout}

\* the loop goes on after two equal samples, to the end of the timeout
Leaves_never(size, check_interval, k) ==
    /\ size[k * check_interval] # Absent
    /\ size[(k + 1) * check_interval] = Absent

\* the k-th iteration leaves the loop: the path exists, and after the sleep
\* os.path.getsize raises or returns initial_size again
Leaves(size, check_interval, k) ==
    /\ size[k * check_interval] # Absent
    /\ \/ size[(k + 1) * check_interval] = Absent
       \/ size[(k + 1) * check_interval] = size[k * check_interval]

wait_for_download(size, timeout, check_interval) ==
    LET loop == Iterations(timeout, check_interval)
        out  == {k \in loop : Leaves(size, check_interval, k)}
    IN  IF out = {}
        THEN [ok |-> FALSE, raised |-> FALSE,
              elapsed |-> Cardinality(loop) * check_interval]
        ELSE LET k == CHOOSE i \in out : \A j \in out : i <= j
             IN  [ok      |-> size[(k + 1) * check_interval] # Absent,
                  raised  |-> size[(k + 1) * check_interval] = Absent,
                  elapsed |-> (k + 1) * check_interval]

\* the defaults transcribe_file calls it with
DefaultTimeout == 900
DefaultInterval == 5

\* what a file that transcribe_file waits for can do, up to the last sample
Horizon == DefaultTimeout + DefaultInterval
SizeStatic == [t \in 0..Horizon |-> 1]
SizeGrowing == [t \in 0..Horizon |-> 1 + t]
SizeSettles == [t \in 0..Horizon |-> IF t < 2 * DefaultInterval THEN 1 + t ELSE 1 + 2 * DefaultInterval]
SizeLate == [t \in 0..Horizon |-> IF t < DefaultInterval THEN Absent ELSE 1]
Sizes == {SizeStatic, SizeGrowing, SizeSettles, SizeLate}

(***************************************************************************)
(* extract_audio(Path(file_path)) on the files `files`.  ffmpeg is the     *)
(* outcome of the subprocess, should it run: "ok" (exit 0, the .wav is     *)
(* there), "fail" (non-zero exit, no output file), "fail_partial"          *)
(* (non-zero exit, an output file left behind).                            *)
(***************************************************************************)
FfmpegOutcomes == {"ok", "fail", "fail_partial"}

VideoSuffixes == {<<".", "mp4">>, <<".", "mkv">>, <<".", "mov">>, <<".", "flv">>}

\* extract_audio without the test for the .wav that is already there
extract_audio_always(p, files, ffmpeg) ==
    LET ext == lower(suffix(Name(p)))
        audio_path == PathOf(with_suffix(Name(p), <<".", "wav">>))
    IN  IF ext \in VideoSuffixes
        THEN [ran    |-> TRUE,
              raised |-> ffmpeg # "ok",
              files  |-> IF ffmpeg = "fail" THEN files ELSE files \cup {audio_path},
              ret    |-> audio_path]
        ELSE [ran |-> FALSE, raised |-> FALSE, files |-> files, ret |-> p]


extract_audio(p, files, ffmpeg) ==
    LET ext == lower(suffix(Name(p)))
        audio_path == PathOf(with_suffix(Name(p), <<".", "wav">>))
    IN  IF ext \in VideoSuffixes
        THEN IF audio_path \notin files
             THEN [ran    |-> TRUE,
                   raised |-> ffmpeg # "ok",
                   files  |-> IF ffmpeg = "fail" THEN files ELSE files \cup {audio_path},
                   ret    |-> audio_path]
             ELSE [ran |-> FALSE, raised |-> FALSE, files |-> files, ret |-> audio_path]
        ELSE [ran |-> FALSE, raised |-> FALSE, files |-> files, ret |-> p]

(***************************************************************************)
(* The extension tests of the two discovery routes.                        *)
(***************************************************************************)
\* scan_existing_files: file.split(".")[-1].lower() in SUPPORTED_FORMATS
scan_accepts(p) == in_formats(lower(split_last(Name(p))))

\* on_created: event.src_path.split(".")[-1].lower() in SUPPORTED_FORMATS
watch_accepts(p) == in_formats(lower(split_last(join(WATCH_DIR, Name(p)))))

\* Path(file_path).with_suffix(".txt").name
text_file(p) == with_suffix(Name(p), <<".", "txt">>)

(***************************************************************************)
(* The state.                                                              *)
(***************************************************************************)
EmptyMap == [p \in {} |-> <<>>]

\* an assignment that would forget the other entries
record_alone(mapping, p, name) ==
    [q \in {p} |-> name]

\* processed_files[file_path] = text_file.name
record(mapping, p, name) ==
    [q \in DOMAIN mapping \cup {p} |-> IF q = p THEN name ELSE mapping[q]]

Idle == [path |-> "-", at |-> "idle", route |-> "-", audio |-> "-"]

NoCalls == [p \in Paths |-> [ffmpeg |-> 0, transcribe |-> 0, write |-> 0, save |-> 0]]

Inc(n) == IF n < Cap THEN n + 1 ELSE Cap

Count(p, what) == [calls EXCEPT ![p][what] = Inc(@)]

NoLast == [path |-> "-", how |-> "none"]

\* the keys json.load would return from the file as it is now
Readable(file) == IF file.kind = "json" THEN DOMAIN file.map ELSE {}

NoProbe == [at |-> "off"]

Program ==
    /\ pc = "start"
    /\ err = "none"
    /\ run = 1
    /\ fs = {}
    /\ todo = {}
    /\ observer = "off"
    /\ events = <<>>
    /\ tf = Idle
    /\ processed_files = EmptyMap
    /\ state_file = [kind |-> "absent", map |-> EmptyMap]
    /\ transcripts = [n \in TxtNames |-> "none"]
    /\ calls = NoCalls
    /\ last = NoLast
    /\ completed = {}
    /\ saved = {}
    /\ loaded = {}

Init ==
    /\ Program
    /\ wcall = NoProbe
    /\ xcall = NoProbe
    /\ offered = Media

Alive == pc \in {"start", "scan", "watch", "stopping"}

(***************************************************************************)
(* The user.                                                               *)
(***************************************************************************)
\* the creation event the observer queues for a path, if it is running
Notify(queue, p) ==
    IF observer = "running"
    THEN Append(queue, [src_path |-> p, is_directory |-> p \in Dirs])
    ELSE queue

\* a file or a directory appears under WATCH_DIR
Drop(p) ==
    /\ p \in offered
    /\ p \notin fs
    /\ Cardinality(fs) < MaxFiles
    /\ Len(events) < MaxQueue
    /\ fs' = fs \cup {p}
    /\ events' = Notify(events, p)
    /\ UNCHANGED <<pc, err, run, todo, observer, tf, processed_files, state_file,
                   transcripts, calls, last, completed, saved>>
    /\ UNCHANGED loaded
    /\ UNCHANGED probes

\* a file that is there is put there again (moved away and back, replaced
\* by a copy of itself): the observer reports one more creation
Redrop(p) ==
    /\ p \in fs
    /\ observer = "running"
    /\ Len(events) < MaxQueue
    /\ events' = Notify(events, p)
    /\ UNCHANGED <<pc, err, run, fs, todo, observer, tf, processed_files, state_file,
                   transcripts, calls, last, completed, saved>>
    /\ UNCHANGED loaded
    /\ UNCHANGED probes

(***************************************************************************)
(* The process.                                                            *)
(***************************************************************************)
\* an uncaught exception: in the main thread it ends the process, in the
\* observer thread it ends that thread and the main thread sleeps on
Dead(how, what) ==
    /\ pc' = how
    /\ err' = what
    /\ todo' = {}
    /\ observer' = "off"
    /\ events' = <<>>
    /\ tf' = Idle
    /\ processed_files' = EmptyMap
    /\ calls' = NoCalls

\* load_processed_files as it would be if it did not read the file
load_forgets ==
    /\ pc = "start"
    /\ processed_files' = EmptyMap
    /\ pc' = "scan"
    /\ todo' = fs \ Dirs
    /\ loaded' = Readable(state_file)
    /\ UNCHANGED <<err, observer, events, tf, calls>>
    /\ UNCHANGED <<run, fs, state_file, transcripts, last, completed, saved>>
    /\ UNCHANGED probes

\* load_processed_files, then the os.walk listing of scan_existing_files
load_processed_files ==
    /\ pc = "start"
    /\ IF state_file.kind = "absent"
       THEN /\ processed_files' = EmptyMap
            /\ pc' = "scan"
            /\ todo' = fs \ Dirs
            /\ UNCHANGED <<err, observer, events, tf, calls>>
       ELSE IF state_file.kind = "json"
       THEN /\ processed_files' = state_file.map
            /\ pc' = "scan"
            /\ todo' = fs \ Dirs
            /\ UNCHANGED <<err, observer, events, tf, calls>>
       ELSE Dead("raised", "load")
    /\ loaded' = Readable(state_file)
    /\ UNCHANGED <<run, fs, state_file, transcripts, last, completed, saved>>
    /\ UNCHANGED probes

\* one iteration of the loop of scan_existing_files
scan_existing_files ==
    /\ pc = "scan"
    /\ tf = Idle
    /\ \E p \in todo :
        /\ todo' = todo \ {p}
        /\ tf' = IF scan_accepts(p)
                 THEN [path |-> p, at |-> "check", route |-> "scan", audio |-> "-"]
                 ELSE Idle
    /\ UNCHANGED <<pc, err, run, fs, observer, events, processed_files, state_file,
                   transcripts, calls, last, completed, saved>>
    /\ UNCHANGED loaded
    /\ UNCHANGED probes

\* the observer is started without waiting for the scan to be over
observer_start_early ==
    /\ pc = "scan"
    /\ pc' = "watch"
    /\ observer' = "running"
    /\ UNCHANGED <<err, run, fs, todo, events, tf, processed_files, state_file,
                   transcripts, calls, last, completed, saved>>
    /\ UNCHANGED loaded
    /\ UNCHANGED probes

\* the scan is over: the observer is scheduled and started, the main thread sleeps
observer_start ==
    /\ pc = "scan"
    /\ tf = Idle
    /\ todo = {}
    /\ pc' = "watch"
    /\ observer' = "running"
    /\ UNCHANGED <<err, run, fs, todo, events, tf, processed_files, state_file,
                   transcripts, calls, last, completed, saved>>
    /\ UNCHANGED loaded
    /\ UNCHANGED probes

\* the handler is called for the newest queued event, not the oldest
on_created_newest ==
    /\ pc = "watch"
    /\ observer = "running"
    /\ tf = Idle
    /\ events # <<>>
    /\ LET event == events[Len(events)]
       IN  /\ events' = SubSeq(events, 1, Len(events) - 1)
           /\ tf' = IF ~event.is_directory /\ watch_accepts(event.src_path)
                    THEN [path |-> event.src_path, at |-> "check", route |-> "watch", audio |-> "-"]
                    ELSE Idle
    /\ UNCHANGED <<pc, err, run, fs, todo, observer, processed_files, state_file,
                   transcripts, calls, last, completed, saved>>
    /\ UNCHANGED loaded
    /\ UNCHANGED probes

\* FileEventHandler.on_created, for the oldest queued event
on_created ==
    /\ pc = "watch"
    /\ observer = "running"
    /\ tf = Idle
    /\ events # <<>>
    /\ LET event == Head(events)
       IN  /\ events' = Tail(events)
           /\ tf' = IF ~event.is_directory /\ watch_accepts(event.src_path)
                    THEN [path |-> event.src_path, at |-> "check", route |-> "watch", audio |-> "-"]
                    ELSE Idle
    /\ UNCHANGED <<pc, err, run, fs, todo, observer, processed_files, state_file,
                   transcripts, calls, last, completed, saved>>
    /\ UNCHANGED loaded
    /\ UNCHANGED probes

(***************************************************************************)
(* transcribe_file, a line at a time.                                      *)
(***************************************************************************)
\* transcribe_file returns
Return(how) ==
    /\ tf' = Idle
    /\ last' = [path |-> tf.path, how |-> how]

\* an exception leaves transcribe_file: nothing in main.py catches it
Raise(what, queue, counted) ==
    /\ last' = [path |-> tf.path, how |-> "raised"]
    /\ IF tf.route = "scan"
       THEN Dead("raised", what)
       ELSE /\ observer' = "failed"
            /\ err' = what
            /\ tf' = Idle
            /\ events' = queue
            /\ calls' = counted
            /\ UNCHANGED <<pc, todo, processed_files>>

\* transcribe_file without its first test
never_skips(p) == FALSE

\* if file_path in processed_files: return
already_processed(p) == p \in DOMAIN processed_files

tf_check ==
    /\ tf.at = "check"
    /\ IF already_processed(tf.path)
       THEN Return("skipped")
       ELSE /\ tf' = [tf EXCEPT !.at = "wait"]
            /\ UNCHANGED last
    /\ UNCHANGED <<pc, err, run, fs, todo, observer, events, processed_files,
                   state_file, transcripts, calls, completed, saved>>
    /\ UNCHANGED loaded
    /\ UNCHANGED probes

\* a file that never settled is recorded as if it had been transcribed
tf_wait_records ==
    /\ tf.at = "wait"
    /\ \E size \in Sizes :
        IF wait_for_download(size, DefaultTimeout, DefaultInterval).ok
        THEN /\ tf' = [tf EXCEPT !.at = "extract"]
             /\ UNCHANGED <<last, processed_files>>
        ELSE /\ Return("unstable")
             /\ processed_files' = record(processed_files, tf.path, text_file(tf.path))
    /\ UNCHANGED <<pc, err, run, fs, todo, observer, events,
                   state_file, transcripts, calls, completed, saved>>
    /\ UNCHANGED loaded
    /\ UNCHANGED probes

\* if not wait_for_download(file_path): return
tf_wait ==
    /\ tf.at = "wait"
    /\ \E size \in Sizes :
        IF wait_for_download(size, DefaultTimeout, DefaultInterval).ok
        THEN /\ tf' = [tf EXCEPT !.at = "extract"]
             /\ UNCHANGED last
        ELSE Return("unstable")
    /\ UNCHANGED <<pc, err, run, fs, todo, observer, events, processed_files,
                   state_file, transcripts, calls, completed, saved>>
    /\ UNCHANGED loaded
    /\ UNCHANGED probes

\* audio_path = extract_audio(Path(file_path))
tf_extract ==
    /\ tf.at = "extract"
    /\ \E ffmpeg \in FfmpegOutcomes :
        LET r == extract_audio(tf.path, fs, ffmpeg)
            counted == IF r.ran THEN Count(tf.path, "ffmpeg") ELSE calls
            queue == IF r.files = fs THEN events ELSE Notify(events, r.ret)
        IN  /\ fs' = r.files
            /\ IF r.raised
               THEN Raise("extract", queue, counted)
               ELSE /\ tf' = [tf EXCEPT !.at = "transcribe", !.audio = r.ret]
                    /\ events' = queue
                    /\ calls' = counted
                    /\ UNCHANGED <<pc, err, todo, observer, processed_files, last>>
    /\ UNCHANGED <<run, state_file, transcripts, completed, saved>>
    /\ UNCHANGED loaded
    /\ UNCHANGED probes

\* a failed transcription is swallowed and the file recorded all the same
tf_transcribe_swallows ==
    /\ tf.at = "transcribe"
    /\ \E ok \in BOOLEAN :
        IF ok
        THEN /\ tf' = [tf EXCEPT !.at = "open"]
             /\ UNCHANGED <<processed_files, last>>
        ELSE /\ processed_files' = record(processed_files, tf.path, text_file(tf.path))
             /\ Return("raised")
    /\ calls' = Count(tf.path, "transcribe")
    /\ UNCHANGED <<pc, err, todo, observer, events>>
    /\ UNCHANGED <<run, fs, state_file, transcripts, completed, saved>>
    /\ UNCHANGED loaded
    /\ UNCHANGED probes

\* result = model.transcribe(str(audio_path))
tf_transcribe ==
    /\ tf.at = "transcribe"
    /\ \E ok \in BOOLEAN :
        IF ok
        THEN /\ tf' = [tf EXCEPT !.at = "open"]
             /\ calls' = Count(tf.path, "transcribe")
             /\ UNCHANGED <<pc, err, todo, observer, events, processed_files, last>>
        ELSE Raise("transcribe", events, Count(tf.path, "transcribe"))
    /\ UNCHANGED <<run, fs, state_file, transcripts, completed, saved>>
    /\ UNCHANGED loaded
    /\ UNCHANGED probes

\* the entry is made when the transcript is opened, not after it is written
tf_open_records ==
    /\ tf.at = "open"
    /\ transcripts' = [transcripts EXCEPT ![text_file(tf.path)] = "partial"]
    /\ processed_files' = record(processed_files, tf.path, text_file(tf.path))
    /\ tf' = [tf EXCEPT !.at = "write"]
    /\ UNCHANGED <<pc, err, run, fs, todo, observer, events,
                   state_file, calls, last, completed, saved>>
    /\ UNCHANGED loaded
    /\ UNCHANGED probes

\* with open(text_file, "w", encoding="utf-8") as f: the file is created or truncated
tf_open ==
    /\ tf.at = "open"
    /\ transcripts' = [transcripts EXCEPT ![text_file(tf.path)] = "partial"]
    /\ tf' = [tf EXCEPT !.at = "write"]
    /\ UNCHANGED <<pc, err, run, fs, todo, observer, events, processed_files,
                   state_file, calls, last, completed, saved>>
    /\ UNCHANGED loaded
    /\ UNCHANGED probes

\* f.write(result["text"]), and the with block closes the file
tf_write ==
    /\ tf.at = "write"
    /\ transcripts' = [transcripts EXCEPT ![text_file(tf.path)] = "full"]
    /\ calls' = Count(tf.path, "write")
    /\ completed' = completed \cup {tf.path}
    /\ tf' = [tf EXCEPT !.at = "record"]
    /\ UNCHANGED <<pc, err, run, fs, todo, observer, events, processed_files,
                   state_file, last, saved>>
    /\ UNCHANGED loaded
    /\ UNCHANGED probes

\* the entry is made under the path that was transcribed, the extracted audio
tf_record_audio ==
    /\ tf.at = "record"
    /\ processed_files' = record(processed_files, tf.audio, text_file(tf.path))
    /\ tf' = [tf EXCEPT !.at = "save"]
    /\ UNCHANGED <<pc, err, run, fs, todo, observer, events, state_file,
                   transcripts, calls, last, completed, saved>>
    /\ UNCHANGED loaded
    /\ UNCHANGED probes

\* processed_files[file_path] = text_file.name
tf_record ==
    /\ tf.at = "record"
    /\ processed_files' = record(processed_files, tf.path, text_file(tf.path))
    /\ tf' = [tf EXCEPT !.at = "save"]
    /\ UNCHANGED <<pc, err, run, fs, todo, observer, events, state_file,
                   transcripts, calls, last, completed, saved>>
    /\ UNCHANGED loaded
    /\ UNCHANGED probes

\* save_processed_files: open(PROCESSED_FILES, "w") creates or truncates the file
save_open ==
    /\ tf.at = "save"
    /\ state_file' = [kind |-> "truncated", map |-> EmptyMap]
    /\ tf' = [tf EXCEPT !.at = "dump"]
    /\ UNCHANGED <<pc, err, run, fs, todo, observer, events, processed_files,
                   transcripts, calls, last, completed, saved>>
    /\ UNCHANGED loaded
    /\ UNCHANGED probes

\* save_processed_files: json.dump(processed_files, f, indent=4), and the with
\* block closes the file; transcribe_file returns
save_dump ==
    /\ tf.at = "dump"
    /\ state_file' = [kind |-> "json", map |-> processed_files]
    /\ calls' = Count(tf.path, "save")
    /\ saved' = saved \cup {tf.path}
    /\ Return("done")
    /\ UNCHANGED <<pc, err, run, fs, todo, observer, events, processed_files,
                   transcripts, completed>>
    /\ UNCHANGED loaded
    /\ UNCHANGED probes

(***************************************************************************)
(* Ctrl-C.  The main thread is inside the try of the sleep loop only while *)
(* it sleeps: there the except clause stops the observer, whose thread     *)
(* finishes the handler it is in and dispatches nothing more.  Anywhere    *)
(* else the KeyboardInterrupt is uncaught and ends the process where it    *)
(* stands.                                                                 *)
(***************************************************************************)
KeyboardInterrupt ==
    /\ pc \in {"start", "scan", "watch"}
    /\ IF pc = "watch"
       THEN /\ pc' = "stopping"
            /\ observer' = IF observer = "running" THEN "stopping" ELSE observer
            /\ UNCHANGED <<err, todo, events, tf, processed_files, calls>>
       ELSE Dead("raised", "interrupt")
    /\ UNCHANGED <<run, fs, state_file, transcripts, last, completed, saved>>
    /\ UNCHANGED loaded
    /\ UNCHANGED probes

\* observer.join() returns once the observer thread has ended; the process exits
observer_join ==
    /\ pc = "stopping"
    /\ tf = Idle
    /\ Dead("exited", "none")
    /\ UNCHANGED <<run, fs, state_file, transcripts, last, completed, saved>>
    /\ UNCHANGED loaded
    /\ UNCHANGED probes

(***************************************************************************)
(* The process is terminated, at any point, and the program is run again.  *)
(***************************************************************************)
Kill ==
    /\ Alive
    /\ Dead("killed", "none")
    /\ UNCHANGED <<run, fs, state_file, transcripts, last, completed, saved>>
    /\ UNCHANGED loaded
    /\ UNCHANGED probes

Restart ==
    /\ ~Alive
    /\ run < MaxRuns
    /\ run' = run + 1
    /\ pc' = "start"
    /\ err' = "none"
    /\ last' = NoLast
    /\ loaded' = {}
    /\ UNCHANGED <<fs, todo, observer, events, tf, processed_files, state_file,
                   transcripts, calls, completed, saved>>
    /\ UNCHANGED probes

Next ==
    \/ \E p \in Paths : Drop(p)
    \/ \E p \in Paths : Redrop(p)
    \/ load_processed_files
    \/ scan_existing_files
    \/ observer_start
    \/ on_created
    \/ tf_check
    \/ tf_wait
    \/ tf_extract
    \/ tf_transcribe
    \/ tf_open
    \/ tf_write
    \/ tf_record
    \/ save_open
    \/ save_dump
    \/ KeyboardInterrupt
    \/ observer_join
    \/ Kill
    \/ Restart

Spec == Init /\ [][Next]_vars

\* the same program, on the files and directories with odd names
InitNames ==
    /\ Program
    /\ wcall = NoProbe
    /\ xcall = NoProbe
    /\ offered = OddNames

SpecNames == InitNames /\ [][Next]_vars

(***************************************************************************)
(* wait_for_download on its own: one call, on any file history over the    *)
(* time the call can take.                                                 *)
(***************************************************************************)
MaxTimeout == 3      \* the timeouts tried are 1..MaxTimeout
MaxInterval == 2     \* the poll intervals tried are 1..MaxInterval

SizeValues == {Absent, 0, 1}

program == <<pc, err, run, fs, todo, observer, events, tf, processed_files,
             state_file, transcripts, calls, last, completed, saved, loaded>>

InitWait ==
    /\ Program
    /\ xcall = NoProbe
    /\ offered = {}
    /\ \E size \in [0..(MaxTimeout + MaxInterval) -> SizeValues] :
       \E timeout \in 1..MaxTimeout :
       \E check_interval \in 1..MaxInterval :
          wcall = [at |-> "call", size |-> size, timeout |-> timeout,
                   check_interval |-> check_interval]

WaitReturns ==
    /\ wcall.at = "call"
    /\ wcall' = [at |-> "returned", size |-> wcall.size, timeout |-> wcall.timeout,
                 check_interval |-> wcall.check_interval,
                 result |-> wait_for_download(wcall.size, wcall.timeout, wcall.check_interval)]
    /\ UNCHANGED <<program, xcall, offered>>

NextWait == WaitReturns

SpecWait == InitWait /\ [][NextWait]_vars

(***************************************************************************)
(* extract_audio on its own: two calls in a row on the same path, on any   *)
(* set of files that holds it.                                             *)
(***************************************************************************)
InitExtract ==
    /\ Program
    /\ wcall = NoProbe
    /\ offered = {}
    /\ \E p \in Paths \ Dirs :
       \E files \in SUBSET Paths :
          /\ p \in files
          /\ xcall = [at |-> "call", path |-> p, before |-> files, files |-> files,
                      ran |-> 0, rets |-> <<>>, raised |-> <<>>]

ExtractCall ==
    /\ xcall.at = "call"
    /\ Len(xcall.rets) < 2
    /\ \E ffmpeg \in FfmpegOutcomes :
        LET r == extract_audio(xcall.path, xcall.files, ffmpeg)
        IN  xcall' = [xcall EXCEPT !.files = r.files,
                                   !.ran = IF r.ran THEN @ + 1 ELSE @,
                                   !.rets = Append(@, r.ret),
                                   !.raised = Append(@, r.raised)]
    /\ UNCHANGED <<program, wcall, offered>>

NextExtract == ExtractCall

SpecExtract == InitExtract /\ [][NextExtract]_vars

TypeOK ==
    /\ pc \in {"start", "scan", "watch", "stopping", "exited", "raised", "killed"}
    /\ err \in {"none", "load", "extract", "transcribe", "interrupt"}
    /\ run \in 1..MaxRuns
    /\ fs \subseteq Paths
    /\ todo \subseteq Paths
    /\ observer \in {"off", "running", "stopping", "failed"}
    /\ tf.at \in {"idle", "check", "wait", "extract", "transcribe", "open", "write",
                  "record", "save", "dump"}
    /\ DOMAIN processed_files \subseteq Paths
    /\ state_file.kind \in {"absent", "json", "truncated"}
    /\ completed \subseteq Paths
    /\ saved \subseteq completed
    /\ loaded \subseteq Paths
    /\ offered \subseteq Paths

(***************************************************************************)
(* The properties.                                                         *)
(***************************************************************************)
\* a step of the program itself: nobody kills or interrupts the process in it
Lives == pc' # "killed" /\ ~(pc' = "raised" /\ err' = "interrupt")

\* C1: a call of transcribe_file on a path that is a key of the mapping does
\* nothing at all: no wait, no extraction, no transcription, no write, no
\* save, the mapping and the state file as they were; and so a run writes the
\* transcript of a path, and saves for it, at most once.
C1_Idempotent ==
    /\ [](\A p \in Paths : calls[p].write <= 1 /\ calls[p].save <= 1)
    /\ []((Alive /\ last.how = "skipped") => last.path \in DOMAIN processed_files)
    /\ [][(tf.at = "check" /\ tf.path \in DOMAIN processed_files /\ tf' # tf /\ Lives)
            => /\ tf' = Idle
               /\ last' = [path |-> tf.path, how |-> "skipped"]
               /\ UNCHANGED <<pc, err, fs, observer, events, processed_files, state_file,
                              transcripts, calls, completed, saved>>]_vars

\* the second of two calls on one path has returned, in the run that wrote its transcript
C1_Witness ==
    /\ last.how = "skipped"
    /\ calls[last.path].write = 1
    /\ calls[last.path].save = 1

\* C2: every key of the in-memory mapping and every key readable from the
\* state file is a path whose transcript write has returned, and a path that
\* transcribe_file is still working on, up to its write, is no key yet.
C2_EntryAfterWrite ==
    /\ (DOMAIN processed_files \cup Readable(state_file)) \subseteq completed
    /\ tf.at \in {"wait", "extract", "transcribe", "open", "write"}
          => tf.path \notin DOMAIN processed_files

\* a key in memory that is not yet in the state file, and another that is
C2_Witness ==
    /\ tf.at = "save"
    /\ Readable(state_file) # {}
    /\ DOMAIN processed_files # Readable(state_file)

\* C3: whenever the program starts again, the state file still yields the
\* entry of every file whose save_processed_files had returned.
C3_WriteThrough ==
    (pc = "start" /\ run > 1) => saved \subseteq Readable(state_file)

\* C4: load_processed_files never raises: the program never ends there.
C4_LoadNeverFails ==
    ~(pc = "raised" /\ err = "load")

\* C5: a path whose transcript was written and whose entry was never saved is,
\* at the next start, no key of the loaded mapping and is listed by the scan.
C5_CrashSafety ==
    [][(pc = "start" /\ pc' \in {"scan", "raised"})
         => \A p \in completed \ saved :
               /\ pc' = "scan"
               /\ p \notin DOMAIN processed_files'
               /\ p \in fs => p \in todo']_vars

\* C6: when extract_audio or model.transcribe raises, the exception leaves
\* transcribe_file (it ends the process on the scan route and the observer
\* thread on the watch route), no transcript is written, the state file is
\* not rewritten, and the path is a key neither in memory nor on disk, so
\* that the next call for it passes the first test.
C6_FailureNotRecorded ==
    /\ [][(tf.at \in {"extract", "transcribe"} /\ tf'.at = "idle" /\ Lives)
            => /\ last' = [path |-> tf.path, how |-> "raised"]
               /\ err' = tf.at
               /\ IF tf.route = "scan" THEN pc' = "raised" ELSE observer' = "failed"
               /\ UNCHANGED <<transcripts, state_file, completed, saved>>
               /\ DOMAIN processed_files' \subseteq DOMAIN processed_files
               /\ tf.path \notin DOMAIN processed_files' \cup Readable(state_file')]_vars
    /\ [](last.how = "raised"
            => last.path \notin DOMAIN processed_files \cup Readable(state_file))

\* the transcription of a path raised in the observer thread
C6_Witness ==
    /\ last.how = "raised"
    /\ err = "transcribe"
    /\ observer = "failed"
    /\ calls[last.path].transcribe = 1
    /\ calls[last.path].write = 0

\* C7: wait_for_download with a timeout > 0: (a) a file that is there with
\* one size throughout: True, after at most one poll interval; (b) a file
\* whose two samples differ in every iteration: False, no earlier than the
\* timeout and no later than the timeout plus one poll interval; (c) True is
\* returned at the first iteration whose two samples are equal, and not later.
C7_Readiness ==
    wcall.at = "returned" =>
        LET size == wcall.size
            T    == wcall.timeout
            ci   == wcall.check_interval
            r    == wcall.result
            Pair(k)   == <<size[k * ci], size[(k + 1) * ci]>>
            Both(k)   == Pair(k)[1] # Absent /\ Pair(k)[2] # Absent
            Equal(k)  == Both(k) /\ Pair(k)[1] = Pair(k)[2]
            Goes(k)   == Pair(k)[1] = Absent \/ (Both(k) /\ Pair(k)[1] # Pair(k)[2])
            started   == {k \in 0..T : k * ci < T}
        IN  /\ (size[0] # Absent /\ \A t \in DOMAIN size : size[t] = size[0])
                  => (r.ok /\ r.elapsed <= ci)
            /\ (\A k \in started : Both(k) /\ ~Equal(k))
                  => (~r.ok /\ ~r.raised /\ T <= r.elapsed /\ r.elapsed <= T + ci)
            /\ \A k \in started :
                  (Equal(k) /\ \A j \in 0..(k - 1) : Goes(j))
                      => (r.ok /\ r.elapsed = (k + 1) * ci)
            /\ r.ok => \E k \in started : Equal(k) /\ r.elapsed = (k + 1) * ci

\* True came from a later pair of samples, before the timeout
C7_Witness ==
    /\ wcall.at = "returned"
    /\ wcall.result.ok
    /\ wcall.check_interval < wcall.result.elapsed
    /\ wcall.result.elapsed < wcall.timeout

\* C8: when wait_for_download returns False, transcribe_file returns and has
\* changed nothing: no extraction, no transcription, no transcript, no entry,
\* no save; the path is still no key.
C8_UnstableNoOp ==
    [][(tf.at = "wait" /\ tf'.at = "idle" /\ Lives)
         => /\ last' = [path |-> tf.path, how |-> "unstable"]
            /\ UNCHANGED <<pc, err, fs, observer, events, processed_files, state_file,
                           transcripts, completed, saved>>
            /\ UNCHANGED calls
            /\ tf.path \notin DOMAIN processed_files']_vars

\* a path that was found unstable is being processed by a later call of the run
C8_Witness ==
    /\ tf.at = "extract"
    /\ last = [path |-> tf.path, how |-> "unstable"]

Extension(p) ==
    LET sfx == suffix(Name(p))
    IN  IF sfx = <<>> THEN "" ELSE LowerTok(sfx[Len(sfx)])

\* C10: a file whose extension is not in SUPPORTED_FORMATS, or that has none,
\* is handed to transcribe_file by neither route, and gets no transcript and
\* no entry.
C10_ExtensionFilter ==
    \A p \in Paths \ Dirs :
        Extension(p) \notin SUPPORTED_FORMATS
            => /\ tf.path # p
               /\ p \notin DOMAIN processed_files
               /\ transcripts[text_file(p)] = "none"

\* C11: in a run that read a state file, every key of that file is a key of
\* the in-memory mapping for the rest of the run, and the run calls neither
\* ffmpeg nor model.transcribe for it and does not write its transcript,
\* whether the entry was made by the scan or by the handler of an earlier run.
C11_RerunSkips ==
    (Alive /\ pc # "start") =>
        /\ loaded \subseteq DOMAIN processed_files
        /\ \A p \in loaded :
              /\ calls[p].ffmpeg = 0
              /\ calls[p].transcribe = 0
              /\ calls[p].write = 0

\* the scan of a later run has just skipped a file that the state file recorded
C11_Witness ==
    /\ run > 1
    /\ pc = "scan"
    /\ last.how = "skipped"
    /\ last.path \in loaded
    /\ last.path \in fs

\* the transcript name the specification gives for each media file
TranscriptOf(p) ==
    CASE p = "clip.mp3"  -> <<"clip", ".", "txt">>
      [] p = "video.mp4" -> <<"video", ".", "txt">>
      [] p = "video.wav" -> <<"video", ".", "txt">>
      [] OTHER -> <<>>

\* C12: when transcribe_file has gone through for a path P, the transcript
\* named after P with its extension replaced by .txt is written in full (for
\* a video too, whose audio is the .wav sibling), the one key added to the
\* mapping is P itself and its value is that transcript's file name, in
\* memory and in the state file; and model.transcribe is called for a video
\* only when its .wav sibling exists, and is called on that sibling.
C12_DerivedFromOriginal ==
    /\ [][(tf.at = "record" /\ tf'.at = "save")
            => /\ DOMAIN processed_files' = DOMAIN processed_files \cup {tf.path}
               /\ processed_files'[tf.path] = TranscriptOf(tf.path)]_vars
    /\ [][(tf.at = "dump" /\ tf'.at = "idle" /\ Lives)
            => /\ transcripts'[TranscriptOf(tf.path)] = "full"
               /\ tf.path \in DOMAIN processed_files'
               /\ processed_files'[tf.path] = TranscriptOf(tf.path)
               /\ tf.path \in Readable(state_file')
               /\ state_file'.map[tf.path] = TranscriptOf(tf.path)]_vars
    /\ [](\A p \in DOMAIN processed_files : processed_files[p] = TranscriptOf(p))
    /\ []((tf.at = "transcribe" /\ tf.path = "video.mp4")
            => ("video.wav" \in fs /\ tf.audio = "video.wav"))
    /\ []((tf.at = "transcribe" /\ tf.path # "video.mp4") => tf.audio = tf.path)

\* the video has gone through: extracted, transcribed, written, recorded, saved
C12_Witness ==
    /\ last = [path |-> "video.mp4", how |-> "done"]
    /\ calls["video.mp4"].ffmpeg = 1
    /\ "video.mp4" \in Readable(state_file)
    /\ transcripts[<<"video", ".", "txt">>] = "full"

\* C13: transcribe_file invocations never overlap.  While an invocation made
\* by the scan is in progress the observer thread has not been started;
\* once the observer thread exists the scan is over, with nothing left to
\* visit, and the main thread only sleeps or joins; an invocation made by
\* the handler runs in the observer thread, while queued events wait.  And
\* within one run model.transcribe is called at most once for a path.
C13_Serialized ==
    /\ tf.route = "scan" => (pc = "scan" /\ observer = "off" /\ events = <<>>)
    /\ tf.route = "watch" => (pc \in {"watch", "stopping"} /\ observer \in {"running", "stopping"})
    /\ observer # "off" => (pc \in {"watch", "stopping"} /\ todo = {})
    /\ \A p \in Paths : calls[p].transcribe <= 1

\* the handler is busy with one file, after another file has gone through in
\* this run, and a further event waits in the queue
C13_Witness ==
    /\ tf.route = "watch"
    /\ tf.at = "transcribe"
    /\ events # <<>>
    /\ \E q \in Paths \ {tf.path} : calls[q].save = 1 /\ q \notin loaded

\* C14: an interrupt ends the process only between files: at the step in
\* which the process ends because of Ctrl-C (the uncaught KeyboardInterrupt,
\* or the exit after observer.stop() and observer.join()), no transcribe_file
\* invocation is in progress, so none is cut short, in particular none
\* between the write of its transcript and its entry.
C14_InterruptBetweenFiles ==
    [][(Alive /\ (pc' = "exited" \/ (pc' = "raised" /\ err' = "interrupt")))
         => tf = Idle]_vars

C16_WriteOnce ==
    /\ [][(pc # "start" /\ Alive')
            => \A p \in DOMAIN processed_files :
                  /\ p \in DOMAIN processed_files'
                  /\ processed_files'[p] = processed_files[p]]_vars
    /\ [][(state_file' # state_file /\ state_file'.kind = "json")
            => state_file'.map = processed_files]_vars
    /\ []((Alive /\ pc # "start")
            => \A p \in Readable(state_file) :
                  /\ p \in DOMAIN processed_files
                  /\ processed_files[p] = state_file.map[p])

\* a save has just written a second entry next to the one saved before it
C16_Witness ==
    /\ last.how = "done"
    /\ tf = Idle
    /\ Cardinality(Readable(state_file)) = 2
    /\ \A p \in Readable(state_file) : calls[p].save = 1

\* the number of times this run has written the transcript named n
Written(n) ==
    LET of == {p \in Paths : TranscriptOf(p) = n}
        Sum[S \in SUBSET of] ==
            IF S = {} THEN 0
            ELSE LET p == CHOOSE q \in S : TRUE
                 IN  calls[p].write + Sum[S \ {p}]
    IN  Sum[of]

\* C17: no transcript is written more than once: within a run that nobody
\* kills, the writes of all the sources that share a stem (video.mp4 and its
\* video.wav share video.txt) add up to at most one per transcript path.
C17_TranscriptWrittenOnce ==
    \A p \in Paths : TranscriptOf(p) # <<>> => Written(TranscriptOf(p)) <= 1

\* C18: the .wav sibling that extract_audio makes for a video is never a
\* source itself: in a run in which ffmpeg was run for video.mp4, no
\* transcribe_file invocation is made for video.wav, and none has called
\* model.transcribe or made an entry for it.
C18_SiblingNotSource ==
    calls["video.mp4"].ffmpeg >= 1
        => /\ tf.path # "video.wav"
           /\ calls["video.wav"].transcribe = 0
           /\ calls["video.wav"].write = 0

\* C19: in a run that nobody interrupts and in which nothing fails, every
\* supported file under WATCH_DIR is recorded in the end.  In finite form:
\* when such a run has nothing left to do (the scan is over, the observer is
\* running, no invocation is in progress, no event is queued, and the latest
\* invocation, if any, did not give a file up as unstable), every supported
\* file that is there is a key of the mapping, with its transcript written.
C19_EventuallyRecorded ==
    (/\ pc = "watch"
     /\ observer = "running"
     /\ tf = Idle
     /\ events = <<>>
     /\ last.how \in {"none", "skipped", "done"})
        => \A p \in fs \ Dirs :
              Extension(p) \in SUPPORTED_FORMATS
                  => /\ p \in DOMAIN processed_files
                     /\ transcripts[TranscriptOf(p)] = "full"

====
